---- MODULE Spec2Model ----
(***************************************************************************)
(* Model of the path engine of koishijs/ponyfills                          *)
(* (packages/fs/src/index.ts): resolve, normalize, join, relative,         *)
(* isAbsolute, dirname, basename, extname.                                 *)
(*                                                                         *)
(* A JavaScript string is a sequence of one-character strings, so          *)
(* "/a/.." is <<"/", "a", ".", ".">> and '' is <<>>.  A string array is a  *)
(* sequence of such sequences.  A value that is not a string is the        *)
(* value NotAString; a thrown TypeError is the value TypeError.            *)
(*                                                                         *)
(* The storage layer (fs/src/promises.ts: writeFile, readFile, mkdir, rm,  *)
(* cp, rename) works on the origin-private storage tree, the variable      *)
(* tree; prev is the tree as it was before the call in progress.           *)
(***************************************************************************)
EXTENDS Integers, Sequences, FiniteSets, TLC

VARIABLES op, args, result, tree, prev

vars == <<op, args, result, tree, prev>>

(* ---------------------------------------------------------------------- *)
(* Bounds                                                                  *)
(* ---------------------------------------------------------------------- *)

\* longest path string given to a one-argument function
MaxLen == 5
\* longest path string given to relative(from, to)
MaxPairLen == 3
\* longest fragment in an argument list of resolve / join
MaxFragLen == 2
\* longest argument list of resolve / join
MaxArgs == 3
\* longest segment sequence given to normalizeArray
MaxParts == 4
\* deepest entry a storage path names
MaxDepth == 2
\* most entries the storage tree holds below its root
MaxEntries == 3

\* the characters paths are made of: the separator, the dot, two letters
Chars == {"/", ".", "a", "b"}
\* the characters of the fragments of an argument list; the dot segments
\* are added to the fragments whole
FragChars == {"/", "a"}

StringsUpTo(cs, n) == UNION {[1..k -> cs] : k \in 0..n}

Paths == StringsUpTo(Chars, MaxLen)
PairPaths == StringsUpTo(Chars, MaxPairLen)

\* a value whose typeof is not 'string' (a number, null, an object, ...)
NotAString == <<"#not-a-string">>
\* the TypeError thrown by resolve and join
TypeError == <<"#TypeError">>

Fragments ==
  StringsUpTo(FragChars, MaxFragLen) \cup {<<".">>, <<".", ".">>, NotAString}
ArgLists == UNION {[1..k -> Fragments] : k \in 0..MaxArgs}

IsString(v) == v # NotAString

\* the segments normalizeArray is given: never empty, the callers filter
Segments == {<<".">>, <<".", ".">>, <<"a">>, <<"b">>}
SegmentLists == UNION {[1..k -> Segments] : k \in 0..MaxParts}

(* ---------------------------------------------------------------------- *)
(* JavaScript string and array primitives used by the code                 *)
(* ---------------------------------------------------------------------- *)

\* s.split('/'): the pieces between separators, empty pieces included
RECURSIVE split(_)
split(s) ==
  IF \A k \in 1..Len(s) : s[k] # "/"
  THEN <<s>>
  ELSE LET k == CHOOSE k \in 1..Len(s) :
                  s[k] = "/" /\ \A j \in 1..(k - 1) : s[j] # "/"
       IN <<SubSeq(s, 1, k - 1)>> \o split(SubSeq(s, k + 1, Len(s)))

\* parts.join('/')
RECURSIVE arrayJoin(_)
arrayJoin(parts) ==
  IF parts = <<>> THEN <<>>
  ELSE IF Len(parts) = 1 THEN parts[1]
  ELSE parts[1] \o <<"/">> \o arrayJoin(Tail(parts))

\* arr.filter(p => !!p) on an array of strings
filterNonEmpty(parts) == SelectSeq(parts, LAMBDA p : p # <<>>)

\* arr.splice(i, 1), with i a 1-based index
splice(parts, i) == SubSeq(parts, 1, i - 1) \o SubSeq(parts, i + 1, Len(parts))

\* arr.slice(b, e) with 0-based b and exclusive 0-based e, both non-negative
slice(arr, b, e) ==
  LET hi == IF e > Len(arr) THEN Len(arr) ELSE e
  IN IF b >= hi THEN <<>> ELSE SubSeq(arr, b + 1, hi)

\* s.slice(1)
sliceFrom1(s) == IF s = <<>> THEN <<>> ELSE Tail(s)

\* s.slice(0, -n) for n > 0
dropLast(s, n) == IF n >= Len(s) THEN <<>> ELSE SubSeq(s, 1, Len(s) - n)

\* s.slice(-n) for n > 0
takeLast(s, n) == IF n >= Len(s) THEN s ELSE SubSeq(s, Len(s) - n + 1, Len(s))

(* ---------------------------------------------------------------------- *)
(* normalizeArray                                                          *)
(* ---------------------------------------------------------------------- *)

Dot == <<".">>
DotDot == <<".", ".">>

\* mutant of normalizeScan: a climbed-over segment does not use up its '..'
RECURSIVE normalizeScanNoDecrement(_, _, _)
normalizeScanNoDecrement(parts, i, up) ==
  IF i = 0 THEN [parts |-> parts, up |-> up]
  ELSE LET last == parts[i]
       IN IF last = Dot THEN normalizeScanNoDecrement(splice(parts, i), i - 1, up)
          ELSE IF last = DotDot
          THEN normalizeScanNoDecrement(splice(parts, i), i - 1, up + 1)
          ELSE IF up # 0 THEN normalizeScanNoDecrement(splice(parts, i), i - 1, up)
          ELSE normalizeScanNoDecrement(parts, i - 1, up)

\* the backward scan: i is the 1-based index about to be examined
RECURSIVE normalizeScan(_, _, _)
normalizeScan(parts, i, up) ==
  IF i = 0 THEN [parts |-> parts, up |-> up]
  ELSE LET last == parts[i]
       IN IF last = Dot THEN normalizeScan(splice(parts, i), i - 1, up)
          ELSE IF last = DotDot THEN normalizeScan(splice(parts, i), i - 1, up + 1)
          ELSE IF up # 0 THEN normalizeScan(splice(parts, i), i - 1, up - 1)
          ELSE normalizeScan(parts, i - 1, up)

\* mutant of unshiftUps: the loop tests --up, one '..' too few
RECURSIVE unshiftUpsOffByOne(_, _)
unshiftUpsOffByOne(parts, up) ==
  IF up <= 1 THEN parts ELSE unshiftUpsOffByOne(<<DotDot>> \o parts, up - 1)

\* for (; up--; up) parts.unshift('..')
RECURSIVE unshiftUps(_, _)
unshiftUps(parts, up) ==
  IF up = 0 THEN parts ELSE unshiftUps(<<DotDot>> \o parts, up - 1)

normalizeArray(parts, allowAboveRoot) ==
  LET scanned == normalizeScan(parts, Len(parts), 0)
  IN IF allowAboveRoot THEN unshiftUps(scanned.parts, scanned.up)
     ELSE scanned.parts

(* ---------------------------------------------------------------------- *)
(* isAbsolute, normalize                                                   *)
(* ---------------------------------------------------------------------- *)

isAbsolute(path) == Len(path) > 0 /\ path[1] = "/"

\* mutant of normalize: the trailing slash is appended before the '.'
\* fallback instead of after it
normalizeSlashBeforeDot(path) ==
  LET isPathAbsolute == isAbsolute(path)
      trailingSlash == Len(path) > 0 /\ path[Len(path)] = "/"
      p1 == arrayJoin(normalizeArray(filterNonEmpty(split(path)), ~isPathAbsolute))
      p2 == IF p1 # <<>> /\ trailingSlash THEN p1 \o <<"/">> ELSE p1
      p3 == IF p2 = <<>> /\ ~isPathAbsolute THEN Dot ELSE p2
  IN (IF isPathAbsolute THEN <<"/">> ELSE <<>>) \o p3

\* mutant of normalize: the trailing slash is not put back
normalizeNoTrailingSlash(path) ==
  LET isPathAbsolute == isAbsolute(path)
      p1 == arrayJoin(normalizeArray(filterNonEmpty(split(path)), ~isPathAbsolute))
      p2 == IF p1 = <<>> /\ ~isPathAbsolute THEN Dot ELSE p1
  IN (IF isPathAbsolute THEN <<"/">> ELSE <<>>) \o p2

normalize(path) ==
  LET isPathAbsolute == isAbsolute(path)
      trailingSlash == Len(path) > 0 /\ path[Len(path)] = "/"
      p1 == arrayJoin(normalizeArray(filterNonEmpty(split(path)), ~isPathAbsolute))
      p2 == IF p1 = <<>> /\ ~isPathAbsolute THEN Dot ELSE p1
      p3 == IF p2 # <<>> /\ trailingSlash THEN p2 \o <<"/">> ELSE p2
  IN (IF isPathAbsolute THEN <<"/">> ELSE <<>>) \o p3

(* ---------------------------------------------------------------------- *)
(* resolve                                                                 *)
(* ---------------------------------------------------------------------- *)

\* mutant of resolveScan: the loop ends at i >= 0, no synthetic root
RECURSIVE resolveScanNoRoot(_, _, _, _)
resolveScanNoRoot(a, i, resolvedPath, resolvedAbsolute) ==
  IF ~(i >= 0 /\ ~resolvedAbsolute)
  THEN [thrown |-> FALSE, resolvedPath |-> resolvedPath,
        resolvedAbsolute |-> resolvedAbsolute]
  ELSE LET path == a[i + 1]
       IN IF ~IsString(path)
          THEN [thrown |-> TRUE, resolvedPath |-> resolvedPath,
                resolvedAbsolute |-> resolvedAbsolute]
          ELSE IF path = <<>>
          THEN resolveScanNoRoot(a, i - 1, resolvedPath, resolvedAbsolute)
          ELSE resolveScanNoRoot(a, i - 1, path \o <<"/">> \o resolvedPath,
                                 path[1] = "/")

\* mutant of resolveScan: the loop does not stop at an absolute fragment
RECURSIVE resolveScanNoStop(_, _, _, _)
resolveScanNoStop(a, i, resolvedPath, resolvedAbsolute) ==
  IF ~(i >= -1)
  THEN [thrown |-> FALSE, resolvedPath |-> resolvedPath,
        resolvedAbsolute |-> resolvedAbsolute]
  ELSE LET path == IF i >= 0 THEN a[i + 1] ELSE <<"/">>
       IN IF ~IsString(path)
          THEN [thrown |-> TRUE, resolvedPath |-> resolvedPath,
                resolvedAbsolute |-> resolvedAbsolute]
          ELSE IF path = <<>>
          THEN resolveScanNoStop(a, i - 1, resolvedPath, resolvedAbsolute)
          ELSE resolveScanNoStop(a, i - 1, path \o <<"/">> \o resolvedPath,
                                 path[1] = "/")

\* mutant of resolveScan: a non-string fragment is skipped like an empty one
RECURSIVE resolveScanSkipNonString(_, _, _, _)
resolveScanSkipNonString(a, i, resolvedPath, resolvedAbsolute) ==
  IF ~(i >= -1 /\ ~resolvedAbsolute)
  THEN [thrown |-> FALSE, resolvedPath |-> resolvedPath,
        resolvedAbsolute |-> resolvedAbsolute]
  ELSE LET path == IF i >= 0 THEN a[i + 1] ELSE <<"/">>
       IN IF ~IsString(path) \/ path = <<>>
          THEN resolveScanSkipNonString(a, i - 1, resolvedPath, resolvedAbsolute)
          ELSE resolveScanSkipNonString(a, i - 1, path \o <<"/">> \o resolvedPath,
                                        path[1] = "/")

\* the right-to-left scan of resolve; i is the 0-based index about to be
\* read, -1 standing for the synthetic root '/'
RECURSIVE resolveScan(_, _, _, _)
resolveScan(a, i, resolvedPath, resolvedAbsolute) ==
  IF ~(i >= -1 /\ ~resolvedAbsolute)
  THEN [thrown |-> FALSE, resolvedPath |-> resolvedPath,
        resolvedAbsolute |-> resolvedAbsolute]
  ELSE LET path == IF i >= 0 THEN a[i + 1] ELSE <<"/">>
       IN IF ~IsString(path)
          THEN [thrown |-> TRUE, resolvedPath |-> resolvedPath,
                resolvedAbsolute |-> resolvedAbsolute]
          ELSE IF path = <<>>
          THEN resolveScan(a, i - 1, resolvedPath, resolvedAbsolute)
          ELSE resolveScan(a, i - 1, path \o <<"/">> \o resolvedPath,
                           path[1] = "/")

resolve(a) ==
  LET scan == resolveScan(a, Len(a) - 1, <<>>, FALSE)
      resolvedPath ==
        arrayJoin(normalizeArray(filterNonEmpty(split(scan.resolvedPath)),
                                 ~scan.resolvedAbsolute))
      whole == (IF scan.resolvedAbsolute THEN <<"/">> ELSE <<>>) \o resolvedPath
  IN IF scan.thrown THEN TypeError
     ELSE IF whole = <<>> THEN Dot ELSE whole

(* ---------------------------------------------------------------------- *)
(* join                                                                    *)
(* ---------------------------------------------------------------------- *)

\* mutant of joinFilter: a non-string is filtered out instead of thrown on
RECURSIVE joinFilterDropNonString(_, _, _)
joinFilterDropNonString(a, i, kept) ==
  IF i > Len(a) THEN [thrown |-> FALSE, kept |-> kept]
  ELSE IF IsString(a[i]) /\ a[i] # <<>>
  THEN joinFilterDropNonString(a, i + 1, Append(kept, a[i]))
  ELSE joinFilterDropNonString(a, i + 1, kept)

\* mutant of joinFilter: the callback returns true, empty strings are kept
RECURSIVE joinFilterKeepEmpty(_, _, _)
joinFilterKeepEmpty(a, i, kept) ==
  IF i > Len(a) THEN [thrown |-> FALSE, kept |-> kept]
  ELSE IF ~IsString(a[i]) THEN [thrown |-> TRUE, kept |-> kept]
  ELSE joinFilterKeepEmpty(a, i + 1, Append(kept, a[i]))

\* args.filter(p => { if (typeof p !== 'string') throw ...; return p }):
\* left to right, the first non-string throws, empty strings are dropped
RECURSIVE joinFilter(_, _, _)
joinFilter(a, i, kept) ==
  IF i > Len(a) THEN [thrown |-> FALSE, kept |-> kept]
  ELSE IF ~IsString(a[i]) THEN [thrown |-> TRUE, kept |-> kept]
  ELSE IF a[i] # <<>> THEN joinFilter(a, i + 1, Append(kept, a[i]))
  ELSE joinFilter(a, i + 1, kept)

join(a) ==
  LET f == joinFilter(a, 1, <<>>)
  IN IF f.thrown THEN TypeError ELSE normalize(arrayJoin(f.kept))

(* ---------------------------------------------------------------------- *)
(* relative                                                                *)
(* ---------------------------------------------------------------------- *)

\* the 0-based index of the first non-empty element from the left, or the
\* length when there is none
RECURSIVE trimStart(_, _)
trimStart(arr, start) ==
  IF start < Len(arr) /\ arr[start + 1] = <<>>
  THEN trimStart(arr, start + 1) ELSE start

\* the 0-based index of the first non-empty element from the right, or -1
RECURSIVE trimEnd(_, _)
trimEnd(arr, end) ==
  IF end >= 0 /\ arr[end + 1] = <<>>
  THEN trimEnd(arr, end - 1) ELSE end

\* mutant of trim: the array is returned as it is
trimNothing(arr) == arr

trim(arr) ==
  LET start == trimStart(arr, 0)
      end == trimEnd(arr, Len(arr) - 1)
  IN IF start > end THEN <<>> ELSE slice(arr, start, end - start + 1)

\* mutant of sharedLength: the loop does not break on the first mismatch
sharedLengthNoBreak(lhs, rhs, length, shared) == length

\* for (; shared < length; shared++) if (lhs[shared] !== rhs[shared]) break
RECURSIVE sharedLength(_, _, _, _)
sharedLength(lhs, rhs, length, shared) ==
  IF shared < length /\ lhs[shared + 1] = rhs[shared + 1]
  THEN sharedLength(lhs, rhs, length, shared + 1) ELSE shared

relative(from, to) ==
  LET lhs == trim(split(Tail(resolve(<<from>>))))
      rhs == trim(split(Tail(resolve(<<to>>))))
      length == IF Len(lhs) < Len(rhs) THEN Len(lhs) ELSE Len(rhs)
      shared == sharedLength(lhs, rhs, length, 0)
      ups == [i \in 1..(Len(lhs) - shared) |-> DotDot]
  IN arrayJoin(ups \o slice(rhs, shared, Len(rhs)))

(* ---------------------------------------------------------------------- *)
(* pathRegExp, parse, dirname, basename, extname                           *)
(*                                                                         *)
(* pathRegExp is anchored at both ends and is, in order: group 1         *)
(* (\/?|); group 2 ([\s\S]*?); group 3, made of (?:\.{1,2}|[^\/]+?|)       *)
(* followed by group 4 (\.[^.\/]*|); and any number of closing '/'.        *)
(* Group 1 takes a leading '/' when there is one (the rest of the pattern  *)
(* can always match, so it never gives it back).  Group 2 is lazy: it is   *)
(* the shortest prefix after which group 3 and the trailing slashes match  *)
(* the remainder.  Group 3 holds no '/', so it is the run of non-slash     *)
(* characters at the start of that remainder, and what follows it must be  *)
(* slashes only.  Inside group 3 the alternatives are tried in order:      *)
(* one or two dots (two first), then the shortest non-empty name, then     *)
(* the empty name; each is followed by group 4, '.' and non-dot            *)
(* characters, or nothing.                                                 *)
(* ---------------------------------------------------------------------- *)

AllSlashes(s) == \A k \in 1..Len(s) : s[k] = "/"
NoSlash(s) == \A k \in 1..Len(s) : s[k] # "/"
AllDots(s) == \A k \in 1..Len(s) : s[k] = "."

\* (\.[^.\/]*|) matching the whole of r
MatchesExt(r) ==
  \/ r = <<>>
  \/ /\ r[1] = "."
     /\ \A k \in 2..Len(r) : r[k] # "." /\ r[k] # "/"

\* mutant of nameLength: the alternative for one or two dots is missing
nameLengthNoDotNames(x) ==
  LET n == Len(x)
      restMatches(k) == MatchesExt(SubSeq(x, k + 1, n))
  IN IF \E k \in 1..n : restMatches(k)
     THEN CHOOSE k \in 1..n :
            restMatches(k) /\ \A j \in 1..(k - 1) : ~restMatches(j)
     ELSE 0

\* the length group 3 gives to its name part on the slash-free string x
nameLength(x) ==
  LET n == Len(x)
      restMatches(k) == MatchesExt(SubSeq(x, k + 1, n))
  IN IF n >= 2 /\ AllDots(SubSeq(x, 1, 2)) /\ restMatches(2) THEN 2
     ELSE IF n >= 1 /\ x[1] = "." /\ restMatches(1) THEN 1
     ELSE IF \E k \in 1..n : restMatches(k)
     THEN CHOOSE k \in 1..n :
            restMatches(k) /\ \A j \in 1..(k - 1) : ~restMatches(j)
     ELSE 0

\* the remainder t is group 3 followed by slashes only
tailMatches(t) ==
  \E n \in 0..Len(t) :
    /\ NoSlash(SubSeq(t, 1, n))
    /\ AllSlashes(SubSeq(t, n + 1, Len(t)))

\* mutant of dirLength: group 2 is greedy, the longest prefix that matches
dirLengthGreedy(rest) ==
  CHOOSE d \in 0..Len(rest) :
    /\ tailMatches(SubSeq(rest, d + 1, Len(rest)))
    /\ \A e \in (d + 1)..Len(rest) : ~tailMatches(SubSeq(rest, e + 1, Len(rest)))

\* the length the lazy group 2 takes: the shortest prefix of rest after
\* which the remainder matches
dirLength(rest) ==
  CHOOSE d \in 0..Len(rest) :
    /\ tailMatches(SubSeq(rest, d + 1, Len(rest)))
    /\ \A e \in 0..(d - 1) : ~tailMatches(SubSeq(rest, e + 1, Len(rest)))

\* pathRegExp.exec(filename).slice(1): <<root, dir, basename, ext>>
parse(filename) ==
  LET root == IF isAbsolute(filename) THEN <<"/">> ELSE <<>>
      rest == SubSeq(filename, Len(root) + 1, Len(filename))
      d == dirLength(rest)
      t == SubSeq(rest, d + 1, Len(rest))
      n == CHOOSE n \in 0..Len(t) :
             /\ NoSlash(SubSeq(t, 1, n))
             /\ AllSlashes(SubSeq(t, n + 1, Len(t)))
      base == SubSeq(t, 1, n)
  IN <<root, SubSeq(rest, 1, d), base,
       SubSeq(base, nameLength(base) + 1, Len(base))>>

dirname(path) ==
  LET r == parse(path)
      root == r[1]
      dir == r[2]
  IN IF root = <<>> /\ dir = <<>> THEN Dot
     ELSE root \o (IF dir # <<>> THEN dropLast(dir, 1) ELSE dir)

\* the optional second argument of basename when it is left out
NoExt == <<>>

basename(path, ext) ==
  LET f == parse(path)[3]
  IN IF ext # <<>> /\ takeLast(f, Len(ext)) = ext
     THEN dropLast(f, Len(ext)) ELSE f

extname(path) == parse(path)[4]

(* ---------------------------------------------------------------------- *)
(* The origin-private storage tree and its handle API                      *)
(*                                                                         *)
(* The tree maps the path of every existing entry, a sequence of names, to *)
(* the entry; the root <<>> is a directory and always exists.  A handle is *)
(* the path of its entry.  The three handle methods behave as the File     *)
(* System standard says: they fail with a DOMException named               *)
(* NotFoundError, TypeMismatchError or InvalidModificationError.           *)
(* ---------------------------------------------------------------------- *)

DirEntry == [kind |-> "directory", data |-> ""]
FileEntry(data) == [kind |-> "file", data |-> data]

EmptyTree == (<<>> :> DirEntry)

NoError == [type |-> "none", name |-> "", code |-> "", syscall |-> ""]
DOMException(name) ==
  [type |-> "DOMException", name |-> name, code |-> "", syscall |-> ""]

\* the code each SystemError subclass passes to its constructor
SystemErrorCode(class) ==
  CASE class = "ENOENT" -> "EEXIST"
    [] class = "EEXIST" -> "EEXIST"
    [] class = "ENOTDIR" -> "ENOTDIR"
    [] class = "EISDIR" -> "EISDIR"

\* new ENOENT(syscall, path) and its siblings
SystemError(class, type) ==
  [type |-> "SystemError", name |-> class, code |-> SystemErrorCode(class),
   syscall |-> type]

\* the outcome of a step: the tree it leaves, the error it threw if any,
\* the handle or file content it returned
Returned(t, handle) == [tree |-> t, error |-> NoError, handle |-> handle]
Thrown(t, error) == [tree |-> t, error |-> error, handle |-> <<>>]
Failed(r) == r.error # NoError

\* the entries below a directory
Descendants(t, dir) ==
  {n \in DOMAIN t : Len(n) > Len(dir) /\ SubSeq(n, 1, Len(dir)) = dir}

\* FileSystemDirectoryHandle.getDirectoryHandle(name, { create })
dirGetDirectoryHandle(t, dir, name, create) ==
  LET child == Append(dir, name)
  IN IF child \in DOMAIN t
     THEN IF t[child].kind = "file"
          THEN Thrown(t, DOMException("TypeMismatchError"))
          ELSE Returned(t, child)
     ELSE IF create THEN Returned(t @@ (child :> DirEntry), child)
     ELSE Thrown(t, DOMException("NotFoundError"))

\* FileSystemDirectoryHandle.getFileHandle(name, { create })
dirGetFileHandle(t, dir, name, create) ==
  LET child == Append(dir, name)
  IN IF child \in DOMAIN t
     THEN IF t[child].kind = "directory"
          THEN Thrown(t, DOMException("TypeMismatchError"))
          ELSE Returned(t, child)
     ELSE IF create THEN Returned(t @@ (child :> FileEntry("")), child)
     ELSE Thrown(t, DOMException("NotFoundError"))

\* FileSystemDirectoryHandle.removeEntry(name, { recursive })
dirRemoveEntry(t, dir, name, recursive) ==
  LET child == Append(dir, name)
      gone == {child} \cup Descendants(t, child)
  IN IF child \notin DOMAIN t THEN Thrown(t, DOMException("NotFoundError"))
     ELSE IF Descendants(t, child) # {} /\ ~recursive
     THEN Thrown(t, DOMException("InvalidModificationError"))
     ELSE Returned([n \in (DOMAIN t) \ gone |-> t[n]], <<>>)

\* stream.write(data) and stream.close() on createWritable() of a file
writeData(t, file, data) == [t EXCEPT ![file] = FileEntry(data)]

(* ---------------------------------------------------------------------- *)
(* promises.ts: syscall, getDirectoryHandle, getParent, getFileHandle,     *)
(* writeFile, readFile, mkdir, rm, getHandle, cp, rename                   *)
(* ---------------------------------------------------------------------- *)

\* the two dictionaries handed to syscall
DirectoryErrors == [TypeMismatchError |-> "ENOTDIR", NotFoundError |-> "ENOENT"]
FileErrors == [TypeMismatchError |-> "EISDIR", NotFoundError |-> "ENOENT"]

\* syscall(type, path, cb, dict), r being what cb did: a DOMException the
\* dictionary knows is replaced by the SystemError it names
syscall(type, r, dict) ==
  IF r.error.type = "DOMException" /\ r.error.name \in DOMAIN dict
  THEN Thrown(r.tree, SystemError(dict[r.error.name], type))
  ELSE r

\* the loop of getDirectoryHandle from parts[i] on, root being the handle
\* reached so far
RECURSIVE directoryWalk(_, _, _, _, _, _)
directoryWalk(t, type, parts, i, root, create) ==
  IF i > Len(parts) THEN Returned(t, root)
  ELSE LET r == syscall(type, dirGetDirectoryHandle(t, root, parts[i], create),
                        DirectoryErrors)
       IN IF Failed(r) THEN r
          ELSE directoryWalk(r.tree, type, parts, i + 1, r.handle, create)

getDirectoryHandle(t, type, parts, create) ==
  directoryWalk(t, type, parts, 1, <<>>, create)

\* path.split('/').filter(Boolean)
pathParts(path) == filterNonEmpty(split(path))

\* parts.pop(), for a path with at least one segment
fileName(path) == pathParts(path)[Len(pathParts(path))]

\* getParent(type, path, create): the handle of the parent directory
getParent(t, type, path, create) ==
  getDirectoryHandle(t, type, dropLast(pathParts(path), 1), create)

getFileHandle(t, type, path, create) ==
  LET p == getParent(t, type, path, FALSE)
  IN IF Failed(p) THEN p
     ELSE syscall(type, dirGetFileHandle(p.tree, p.handle, fileName(path), create),
                  FileErrors)

\* writeOrAppendFile('write', path, data, false)
writeFile(t, path, data) ==
  LET h == getFileHandle(t, "write", path, TRUE)
  IN IF Failed(h) THEN h
     ELSE Returned(writeData(h.tree, h.handle, data), <<>>)

\* readFile(path): the handle field holds the bytes read
readFile(t, path) ==
  LET h == getFileHandle(t, "read", path, FALSE)
  IN IF Failed(h) THEN h ELSE Returned(h.tree, h.tree[h.handle].data)

mkdir(t, path, recursive) ==
  IF recursive
  THEN LET r == getDirectoryHandle(t, "mkdir", pathParts(path), TRUE)
       IN IF Failed(r) THEN r ELSE Returned(r.tree, <<>>)
  ELSE LET p == getParent(t, "mkdir", path, FALSE)
           look == dirGetDirectoryHandle(p.tree, p.handle, fileName(path), FALSE)
       IN IF Failed(p) THEN p
          ELSE IF ~Failed(look) THEN Thrown(look.tree, SystemError("EEXIST", "mkdir"))
          ELSE IF look.error.name = "NotFoundError"
          THEN LET made == dirGetDirectoryHandle(p.tree, p.handle,
                                                 fileName(path), TRUE)
               IN IF Failed(made) THEN made ELSE Returned(made.tree, <<>>)
          ELSE IF look.error.name = "TypeMismatchError"
          THEN Thrown(look.tree, SystemError("EEXIST", "mkdir"))
          ELSE look

\* rm(path, { force, recursive })
rm(t, path, force, recursive) ==
  LET p == getParent(t, "rm", path, FALSE)
      r == IF Failed(p) THEN p
           ELSE dirRemoveEntry(p.tree, p.handle, fileName(path), recursive)
  IN IF ~Failed(r) THEN Returned(r.tree, <<>>)
     ELSE IF force /\ r.error.type = "SystemError" /\ r.error.name = "ENOENT"
     THEN Returned(r.tree, <<>>)
     ELSE r

\* the kind argument of getHandle when it is left out
NoKind == "undefined"

\* getHandle(path, kind) once getParent has answered with p
getHandleIn(p, name, kind) ==
  IF Failed(p) THEN p
  ELSE IF kind = "file" THEN dirGetFileHandle(p.tree, p.handle, name, TRUE)
  ELSE IF kind = "directory"
  THEN dirGetDirectoryHandle(p.tree, p.handle, name, TRUE)
  ELSE IF ~Failed(dirGetFileHandle(p.tree, p.handle, name, FALSE))
  THEN dirGetFileHandle(p.tree, p.handle, name, FALSE)
  ELSE dirGetDirectoryHandle(p.tree, p.handle, name, FALSE)

\* getHandle(path, kind)
getHandle(t, path, kind) ==
  getHandleIn(getParent(t, "lstat", path, kind # NoKind), fileName(path), kind)

\* oldHandle.kind
handleKind(h) == h.tree[h.handle].kind

\* cp once both handles are open: a file is read and written to the new
\* handle, a directory whose keys() loop has nothing to iterate over is done
cpInto(oldHandle, newHandle) ==
  IF Failed(newHandle) THEN newHandle
  ELSE IF handleKind(oldHandle) = "file"
  THEN Returned(writeData(newHandle.tree, newHandle.handle,
                          newHandle.tree[oldHandle.handle].data), <<>>)
  ELSE Returned(newHandle.tree, <<>>)

\* cp once the old handle is open
cpFrom(oldHandle, dst) ==
  IF Failed(oldHandle) THEN oldHandle
  ELSE cpInto(oldHandle,
              getHandle(oldHandle.tree, dst, handleKind(oldHandle)))

\* cp(src, dst)
cp(t, src, dst) == cpFrom(getHandle(t, src, NoKind), dst)

\* the directory cp is to copy has entries once the new handle is open, so
\* cp would call itself for each of them
cpRecursesInto(oldHandle, newHandle) ==
  /\ ~Failed(newHandle)
  /\ Descendants(newHandle.tree, oldHandle.handle) # {}

cpRecursesFrom(oldHandle, dst) ==
  /\ ~Failed(oldHandle)
  /\ handleKind(oldHandle) = "directory"
  /\ cpRecursesInto(oldHandle, getHandle(oldHandle.tree, dst, "directory"))

cpRecurses(t, src, dst) == cpRecursesFrom(getHandle(t, src, NoKind), dst)

\* rename(oldPath, newPath): cp, then rm of oldPath
rename(t, oldPath, newPath) ==
  LET copied == cp(t, oldPath, newPath)
  IN IF Failed(copied) THEN copied
     ELSE rm(copied.tree, oldPath, FALSE, TRUE)

(* ---------------------------------------------------------------------- *)
(* The calls.  Every function is synchronous and keeps no state: a call    *)
(* is made from the idle state, leaves its arguments and its result in     *)
(* the state, and Return goes back to idle.                                *)
(* ---------------------------------------------------------------------- *)

Init ==
  /\ op = "none"
  /\ args = <<>>
  /\ result = <<>>
  /\ tree = EmptyTree
  /\ prev = EmptyTree

Normalize ==
  /\ op = "none"
  /\ \E p \in Paths :
       /\ op' = "normalize"
       /\ args' = <<p>>
       /\ result' = normalize(p)
  /\ UNCHANGED <<tree, prev>>

IsAbsolute ==
  /\ op = "none"
  /\ \E p \in Paths :
       /\ op' = "isAbsolute"
       /\ args' = <<p>>
       /\ result' = isAbsolute(p)
  /\ UNCHANGED <<tree, prev>>

Resolve ==
  /\ op = "none"
  /\ \E a \in ArgLists :
       /\ op' = "resolve"
       /\ args' = a
       /\ result' = resolve(a)
  /\ UNCHANGED <<tree, prev>>

Join ==
  /\ op = "none"
  /\ \E a \in ArgLists :
       /\ op' = "join"
       /\ args' = a
       /\ result' = join(a)
  /\ UNCHANGED <<tree, prev>>

Relative ==
  /\ op = "none"
  /\ \E from \in PairPaths, to \in PairPaths :
       /\ op' = "relative"
       /\ args' = <<from, to>>
       /\ result' = relative(from, to)
  /\ UNCHANGED <<tree, prev>>

Dirname ==
  /\ op = "none"
  /\ \E p \in Paths :
       /\ op' = "dirname"
       /\ args' = <<p>>
       /\ result' = dirname(p)
  /\ UNCHANGED <<tree, prev>>

\* the extensions basename is asked to strip: none, or the extension or
\* the last character of the path's own final segment
Basename ==
  /\ op = "none"
  /\ \E p \in Paths :
       \E ext \in {NoExt, extname(p), takeLast(parse(p)[3], 1)} :
         /\ op' = "basename"
         /\ args' = <<p, ext>>
         /\ result' = basename(p, ext)
  /\ UNCHANGED <<tree, prev>>

Extname ==
  /\ op = "none"
  /\ \E p \in Paths :
       /\ op' = "extname"
       /\ args' = <<p>>
       /\ result' = extname(p)
  /\ UNCHANGED <<tree, prev>>

NormalizeArray ==
  /\ op = "none"
  /\ \E parts \in SegmentLists, allowAboveRoot \in BOOLEAN :
       /\ op' = "normalizeArray"
       /\ args' = <<parts, allowAboveRoot>>
       /\ result' = normalizeArray(parts, allowAboveRoot)
  /\ UNCHANGED <<tree, prev>>

(* ---------------------------------------------------------------------- *)
(* The storage calls.  The client is single and sequential: a call runs to *)
(* its end before the next one starts.  Paths are spelled with a leading   *)
(* slash, or with doubled and trailing slashes; every path names at least  *)
(* one segment.  A call is left out when it would grow the tree beyond     *)
(* MaxEntries, and rename when cp would call itself on a directory's       *)
(* entries.                                                                *)
(* ---------------------------------------------------------------------- *)

FsNames == {<<"a">>, <<"b">>}
FsData == {"x", "y"}

FsNodes == UNION {[1..k -> FsNames] : k \in 1..MaxDepth}

\* '/a/b'
Rooted(node) == <<"/">> \o arrayJoin(node)
\* '//a/b/'
Redundant(node) == <<"/", "/">> \o arrayJoin(node) \o <<"/">>

FsPaths == {Rooted(n) : n \in FsNodes} \cup {Redundant(n) : n \in FsNodes}

Fits(t) == Cardinality(DOMAIN t) - 1 <= MaxEntries

\* what a storage call leaves in the state
Outcome(r) == [error |-> r.error, value |-> r.handle]

FsWriteFile ==
  /\ op = "none"
  /\ \E path \in FsPaths, data \in FsData :
       LET r == writeFile(tree, path, data)
       IN /\ Fits(r.tree)
          /\ op' = "writeFile"
          /\ args' = <<path, data>>
          /\ result' = Outcome(r)
          /\ tree' = r.tree
          /\ prev' = tree

FsReadFile ==
  /\ op = "none"
  /\ \E path \in FsPaths :
       LET r == readFile(tree, path)
       IN /\ op' = "readFile"
          /\ args' = <<path>>
          /\ result' = Outcome(r)
          /\ tree' = r.tree
          /\ prev' = tree

FsMkdir ==
  /\ op = "none"
  /\ \E path \in FsPaths, recursive \in BOOLEAN :
       LET r == mkdir(tree, path, recursive)
       IN /\ Fits(r.tree)
          /\ op' = "mkdir"
          /\ args' = <<path, recursive>>
          /\ result' = Outcome(r)
          /\ tree' = r.tree
          /\ prev' = tree

FsRm ==
  /\ op = "none"
  /\ \E path \in FsPaths, force \in BOOLEAN, recursive \in BOOLEAN :
       LET r == rm(tree, path, force, recursive)
       IN /\ op' = "rm"
          /\ args' = <<path, force, recursive>>
          /\ result' = Outcome(r)
          /\ tree' = r.tree
          /\ prev' = tree

FsRename ==
  /\ op = "none"
  /\ \E oldPath \in FsPaths, newPath \in FsPaths :
       LET r == rename(tree, oldPath, newPath)
       IN /\ ~cpRecurses(tree, oldPath, newPath)
          /\ Fits(cp(tree, oldPath, newPath).tree)
          /\ op' = "rename"
          /\ args' = <<oldPath, newPath>>
          /\ result' = Outcome(r)
          /\ tree' = r.tree
          /\ prev' = tree

Return ==
  /\ op # "none"
  /\ op' = "none"
  /\ args' = <<>>
  /\ result' = <<>>
  /\ tree' = tree
  /\ prev' = tree

Next ==
  \/ Resolve
  \/ Normalize
  \/ Join
  \/ Relative
  \/ IsAbsolute
  \/ Dirname
  \/ Basename
  \/ Extname
  \/ NormalizeArray
  \/ Return

Spec == Init /\ [][Next]_vars

FsNext ==
  \/ FsWriteFile
  \/ FsReadFile
  \/ FsMkdir
  \/ FsRm
  \/ FsRename
  \/ Return

FsSpec == Init /\ [][FsNext]_vars
(* ---------------------------------------------------------------------- *)
(* Properties                                                              *)
(* ---------------------------------------------------------------------- *)

AllStrings(a) == \A i \in 1..Len(a) : IsString(a[i])
EndsWithSlash(s) == Len(s) > 0 /\ s[Len(s)] = "/"
\* the user-supplied indexes of list a that hold an absolute string
AbsoluteIndexes(a) == {i \in 1..Len(a) : IsString(a[i]) /\ isAbsolute(a[i])}
Max(S) == CHOOSE m \in S : \A x \in S : x <= m

\* C1: resolving the result of relative(from, to) against from gives the
\* same path as resolving to, for all path strings from and to.
RelativeRoundTrip ==
  op = "relative" =>
    resolve(<<args[1], result>>) = resolve(<<args[2]>>)

\* relative('a/b', 'b') has climbed two levels and gone down one: '../../b'
RelativeRoundTripWitness ==
  /\ op = "relative"
  /\ args = << <<"a", "/", "b">>, <<"b">> >>
  /\ result = <<".", ".", "/", ".", ".", "/", "b">>

\* C2: for every list of string fragments resolve returns a path that
\* begins with '/', never the '.' fallback, and exactly '/' when the list
\* is empty or holds only empty strings.
ResolveIsAbsolute ==
  (op = "resolve" /\ AllStrings(args)) =>
    /\ isAbsolute(result)
    /\ result # Dot
    /\ (\A i \in 1..Len(args) : args[i] = <<>>) => result = <<"/">>

\* resolve('', '') has returned '/'
ResolveIsAbsoluteWitness ==
  /\ op = "resolve"
  /\ args = << <<>>, <<>> >>
  /\ result = <<"/">>

\* C3: resolve of a list of strings equals resolve of the suffix that starts
\* at the rightmost absolute fragment, equals resolve of the list with '/'
\* put in front when no fragment is absolute, and does not change when the
\* empty fragments are taken out.
ResolveRestartsAtRightmostAbsolute ==
  (op = "resolve" /\ AllStrings(args)) =>
    /\ AbsoluteIndexes(args) # {} =>
         result = resolve(SubSeq(args, Max(AbsoluteIndexes(args)), Len(args)))
    /\ AbsoluteIndexes(args) = {} =>
         result = resolve(<< <<"/">> >> \o args)
    /\ result = resolve(SelectSeq(args, LAMBDA f : f # <<>>))

\* resolve('a', '/a', 'aa'): a fragment to the left of the absolute one and
\* one to its right
ResolveRestartsWitness ==
  /\ op = "resolve"
  /\ args = << <<"a">>, <<"/", "a">>, <<"a", "a">> >>
  /\ result = <<"/", "a", "/", "a", "a">>

\* C4, as claimed: resolve throws a TypeError whenever any element of its
\* argument list is not a string, whatever its position.
ResolveThrowsOnAnyNonString ==
  (op = "resolve" /\ ~AllStrings(args)) => result = TypeError

\* C4, amended: resolve throws a TypeError exactly when some element that
\* is not a string has no absolute string fragment to its right; an element
\* to the left of an absolute string fragment is never read.
ResolveThrowsOnScannedNonString ==
  op = "resolve" =>
    (result = TypeError <=>
       \E i \in 1..Len(args) :
         /\ ~IsString(args[i])
         /\ \A j \in (i + 1)..Len(args) : j \notin AbsoluteIndexes(args))

\* resolve('/', x, 'a') with x not a string has thrown
ResolveThrowsWitness ==
  /\ op = "resolve"
  /\ args = << <<"/">>, NotAString, <<"a">> >>
  /\ result = TypeError

\* C5: join throws a TypeError if and only if some argument is not a
\* string.
JoinThrowsIffNonString ==
  op = "join" => (result = TypeError <=> ~AllStrings(args))

\* join(x, '/a') with x not a string has thrown, although the fragment to
\* its right is absolute
JoinThrowsWitness ==
  /\ op = "join"
  /\ args = << NotAString, <<"/", "a">> >>
  /\ result = TypeError

\* C6, as claimed: for every list of string fragments, empty ones included,
\* join equals normalize of the fragments concatenated with '/' between
\* each adjacent pair.
JoinIsConcatThenNormalize ==
  (op = "join" /\ AllStrings(args)) => result = normalize(arrayJoin(args))

\* C6, amended: for every list of string fragments join equals normalize of
\* the non-empty fragments concatenated with '/' between each adjacent
\* pair; empty fragments are dropped before the concatenation.
JoinIsConcatNonEmptyThenNormalize ==
  (op = "join" /\ AllStrings(args)) =>
    result = normalize(arrayJoin(SelectSeq(args, LAMBDA f : Len(f) > 0)))

\* join('', 'a') has returned 'a', where normalize('/a') is '/a'
JoinDropsEmptyWitness ==
  /\ op = "join"
  /\ args = << <<>>, <<"a">> >>
  /\ result = <<"a">>

\* C7: normalize is idempotent: normalizing its result gives the result
\* again.
NormalizeIdempotent ==
  op = "normalize" => normalize(result) = result

\* normalize('b/..') has returned '.', which is not its argument
NormalizeIdempotentWitness ==
  /\ op = "normalize"
  /\ args = << <<"b", "/", ".", ".">> >>
  /\ result = Dot

\* the collapsed segments of a path string, as normalize computes them
CollapsedBody(path) ==
  normalizeArray(filterNonEmpty(split(path)), ~isAbsolute(path))

\* C8, as claimed: normalize returns exactly '.' for every non-absolute path
\* whose segments collapse to nothing, with or without a trailing slash.
NormalizeEmptyIsDot ==
  (op = "normalize" /\ ~isAbsolute(args[1]) /\ CollapsedBody(args[1]) = <<>>) =>
    result = Dot

\* C8, amended: for a non-absolute path whose segments collapse to nothing,
\* normalize returns '.' when the path has no trailing slash and './' when
\* it has one.
NormalizeEmptyIsDotOrDotSlash ==
  (op = "normalize" /\ ~isAbsolute(args[1]) /\ CollapsedBody(args[1]) = <<>>) =>
    result = (IF EndsWithSlash(args[1]) THEN <<".", "/">> ELSE Dot)

\* normalize('././') has returned './'
NormalizeDotSlashWitness ==
  /\ op = "normalize"
  /\ args = << <<".", "/", ".", "/">> >>
  /\ result = <<".", "/">>

\* C9: normalize(p) begins with '/' iff p does; if p ends with '/' and its
\* collapsed body is non-empty, normalize(p) ends with exactly one '/'; if p
\* does not end with '/', normalize(p) does not either unless it is '/'.
NormalizePreservesMarkers ==
  op = "normalize" =>
    LET p == args[1]
        r == result
    IN /\ isAbsolute(r) <=> isAbsolute(p)
       /\ (EndsWithSlash(p) /\ CollapsedBody(p) # <<>>) =>
            /\ EndsWithSlash(r)
            /\ Len(r) >= 2
            /\ r[Len(r) - 1] # "/"
       /\ ~EndsWithSlash(p) => (~EndsWithSlash(r) \/ r = <<"/">>)

\* normalize('/a//') has returned '/a/'
NormalizePreservesWitness ==
  /\ op = "normalize"
  /\ args = << <<"/", "a", "/", "/">> >>
  /\ result = <<"/", "a", "/">>

\* C10: for every path p without a trailing slash that is not '.', '..' or
\* '/', resolve(dirname(p), basename(p)) equals resolve(p).
DirnameBasenameRoundTrip ==
  (/\ op = "dirname"
   /\ ~EndsWithSlash(args[1])
   /\ args[1] \notin {Dot, DotDot, <<"/">>}) =>
    resolve(<<result, basename(args[1], NoExt)>>) = resolve(<<args[1]>>)

\* dirname('a//b') has returned 'a/': consecutive slashes before the final
\* segment
DirnameBasenameWitness ==
  /\ op = "dirname"
  /\ args = << <<"a", "/", "/", "b">> >>
  /\ result = <<"a", "/">>

\* the final segment of a path string: its last non-empty piece, or ''
FinalSegment(path) ==
  LET segs == SelectSeq(split(path), LAMBDA x : Len(x) > 0)
  IN IF segs = <<>> THEN <<>> ELSE segs[Len(segs)]

DotPositions(x) == {k \in 1..Len(x) : x[k] = "."}
\* the suffix of x that starts at its last dot
FromLastDot(x) == SubSeq(x, Max(DotPositions(x)), Len(x))

\* C11, as claimed: extname is '' when the final segment has no dot, is
\* made entirely of dots, or has its only dot as its first character;
\* otherwise it is the suffix starting at the last dot of the final segment.
ExtnameEmptyForAllDots ==
  op = "extname" =>
    LET seg == FinalSegment(args[1])
    IN result = IF \/ DotPositions(seg) = {}
                   \/ DotPositions(seg) = 1..Len(seg)
                   \/ DotPositions(seg) = {1}
                THEN <<>> ELSE FromLastDot(seg)

\* C11, amended: extname is '' when the final segment has no dot, is '.' or
\* '..', or has its only dot as its first character; otherwise it is the
\* suffix starting at the last dot of the final segment, which is '.' for a
\* final segment of three or more dots.
ExtnameEmptyForDotAndDotDot ==
  op = "extname" =>
    LET seg == FinalSegment(args[1])
    IN result = IF \/ DotPositions(seg) = {}
                   \/ seg \in {Dot, DotDot}
                   \/ DotPositions(seg) = {1}
                THEN <<>> ELSE FromLastDot(seg)

\* extname('a/..') has returned '': the final segment is '..'
ExtnameWitness ==
  /\ op = "extname"
  /\ args = << <<"a", "/", ".", ".">> >>
  /\ result = <<>>

\* the length of the longest common prefix of two sequences
CommonPrefix(f, t) ==
  Max({k \in 0..Len(f) : k <= Len(t) /\ SubSeq(f, 1, k) = SubSeq(t, 1, k)})

\* C12: with F and T the segments of resolve(from) and resolve(to) and k
\* the length of their common prefix, relative(from, to) is |F| - k
\* segments '..' followed by the segments of T after position k, joined with
\* '/'; it is '' iff the two resolve to the same path; it holds no '.'
\* segment and no '..' after a named segment.
RelativeShortestForm ==
  op = "relative" =>
    LET F == SelectSeq(split(resolve(<<args[1]>>)), LAMBDA x : Len(x) > 0)
        T == SelectSeq(split(resolve(<<args[2]>>)), LAMBDA x : Len(x) > 0)
        k == CommonPrefix(F, T)
        segs == IF result = <<>> THEN <<>> ELSE split(result)
    IN /\ result = arrayJoin([i \in 1..(Len(F) - k) |-> DotDot]
                               \o SubSeq(T, k + 1, Len(T)))
       /\ result = <<>> <=> resolve(<<args[1]>>) = resolve(<<args[2]>>)
       /\ \A i \in 1..Len(segs) : segs[i] # Dot /\ segs[i] # <<>>
       /\ \A i \in 2..Len(segs) : segs[i] = DotDot => segs[i - 1] = DotDot

\* relative('a/b', 'a/a') shares 'a', climbs once and names 'a'
RelativeShortestWitness ==
  /\ op = "relative"
  /\ args = << <<"a", "/", "b">>, <<"a", "/", "a">> >>
  /\ result = <<".", ".", "/", "a">>

IsNamed(seg) == seg # Dot /\ seg # DotDot

\* the forward stack walk: a named segment is pushed, '.' is skipped, '..'
\* pops a named top and is otherwise pushed or dropped
RECURSIVE ForwardWalk(_, _, _, _)
ForwardWalk(parts, i, stack, allowAboveRoot) ==
  IF i > Len(parts) THEN stack
  ELSE LET seg == parts[i]
       IN IF seg = Dot THEN ForwardWalk(parts, i + 1, stack, allowAboveRoot)
          ELSE IF seg # DotDot
          THEN ForwardWalk(parts, i + 1, Append(stack, seg), allowAboveRoot)
          ELSE IF stack # <<>> /\ IsNamed(stack[Len(stack)])
          THEN ForwardWalk(parts, i + 1, SubSeq(stack, 1, Len(stack) - 1),
                           allowAboveRoot)
          ELSE IF allowAboveRoot
          THEN ForwardWalk(parts, i + 1, Append(stack, seg), allowAboveRoot)
          ELSE ForwardWalk(parts, i + 1, stack, allowAboveRoot)

\* sub is parts with some elements left out, the others in their order
RECURSIVE IsSubsequence(_, _)
IsSubsequence(sub, parts) ==
  IF sub = <<>> THEN TRUE
  ELSE IF parts = <<>> THEN FALSE
  ELSE IF Head(sub) = Head(parts) THEN IsSubsequence(Tail(sub), Tail(parts))
  ELSE IsSubsequence(sub, Tail(parts))

\* C13: normalizeArray returns what the forward stack walk returns, for
\* every sequence of non-empty segments and both values of allowAboveRoot;
\* its output holds no '.', holds '..' only as a leading run and only when
\* allowAboveRoot is true, and keeps the surviving named segments in order.
NormalizeArrayIsForwardWalk ==
  op = "normalizeArray" =>
    LET parts == args[1]
        allowAboveRoot == args[2]
    IN /\ result = ForwardWalk(parts, 1, <<>>, allowAboveRoot)
       /\ \A i \in 1..Len(result) : result[i] # Dot
       /\ \A i \in 2..Len(result) : result[i] = DotDot => result[i - 1] = DotDot
       /\ ~allowAboveRoot => \A i \in 1..Len(result) : result[i] # DotDot
       /\ IsSubsequence(SelectSeq(result, IsNamed), SelectSeq(parts, IsNamed))

\* normalizeArray(['..', 'a', 'b', '..'], true) has returned ['..', 'a']
NormalizeArrayWitness ==
  /\ op = "normalizeArray"
  /\ args = << << <<".", ".">>, <<"a">>, <<"b">>, <<".", ".">> >>, TRUE >>
  /\ result = << <<".", ".">>, <<"a">> >>

\* the entry a storage path names
Node(path) == SelectSeq(split(path), LAMBDA x : Len(x) > 0)

\* C14: after rename(oldPath, newPath) has completed without error on an
\* existing file, newPath exists and holds the bytes oldPath held before
\* the call, also when both paths name the same entry; oldPath is gone only
\* when it names another entry than newPath.
RenameKeepsContent ==
  (/\ op = "rename"
   /\ result.error = NoError
   /\ Node(args[1]) \in DOMAIN prev
   /\ prev[Node(args[1])].kind = "file") =>
    /\ Node(args[2]) \in DOMAIN tree
    /\ tree[Node(args[2])] = prev[Node(args[1])]
    /\ Node(args[1]) \notin DOMAIN tree => Node(args[1]) # Node(args[2])

\* the first missing component of a path lies in an existing directory
TargetMissing(t, node) ==
  \E k \in 1..Len(node) :
    /\ SubSeq(node, 1, k) \notin DOMAIN t
    /\ SubSeq(node, 1, k - 1) \in DOMAIN t
    /\ t[SubSeq(node, 1, k - 1)].kind = "directory"

\* C15: rm with force: true completes without error and leaves the tree
\* unchanged whenever the target does not exist, be the missing component
\* an intermediate directory or the final entry; without force it fails.
RmForceIgnoresMissing ==
  (op = "rm" /\ TargetMissing(prev, Node(args[1]))) =>
    IF args[2] THEN result.error = NoError /\ tree = prev
    ELSE result.error # NoError

\* C16: every translated storage failure carries the code of its own
\* condition: the error raised for a missing entry (class ENOENT) has code
\* ENOENT, for a path component that is no directory ENOTDIR, for a target
\* that exists EEXIST, for a directory where a file is required EISDIR.
ErrorCodeIsFaithful ==
  (op \in {"writeFile", "readFile", "mkdir", "rm", "rename"}
   /\ result.error.type = "SystemError") =>
    result.error.code = result.error.name

====
